---- MODULE Spec2Model ----
(***************************************************************************)
(* A model of addict.Dict (src/addict/addict.py): a dict subclass whose    *)
(* values are coerced to Dict on every write, with autovivifying reads,    *)
(* prune, to_dict, copy, update and extend.                                *)
(*                                                                         *)
(* Python objects live in a heap: a sequence of container objects, an      *)
(* address being an index.  A value is a scalar or a reference to a        *)
(* container, so that aliasing (the same child seen through two parents)   *)
(* and its absence (a disconnected copy) are facts of the state.           *)
(*                                                                         *)
(* Scalars are written as strings: "0" and "1" are the ints 0 and 1,       *)
(* "None" is None, and "a", "b", "keys" are the strs 'a', 'b', 'keys'.     *)
(* A dict is modelled as a mapping with no key order: dict equality does   *)
(* not depend on it, and the loops over items visit keys in ScalarOrder.   *)
(***************************************************************************)
EXTENDS Integers, Sequences, FiniteSets, TLC

VARIABLES heap, n, c, tgt, ret, srcs, last

vars == <<heap, n, c, tgt, ret, srcs, last>>

(***************************************************************************)
(* Bounds of the model.                                                    *)
(***************************************************************************)
\* The most containers reachable from the program's variables.
MaxObjs == 3
\* The most sources of one extend call.
MaxArgs == 2

(***************************************************************************)
(* Values and heap objects.                                                *)
(***************************************************************************)
Sc(s) == [ref |-> FALSE, a |-> 0, s |-> s]
Ref(a) == [ref |-> TRUE, a |-> a, s |-> ""]
None == Sc("None")

\* The order in which the model visits keys, and every scalar it uses.
ScalarOrder == <<"a", "b", "keys", "0", "1", "None">>
\* The scalars that are Python strs (the others are ints and None).
Strs == {"a", "b", "keys"}

EmptyMap == [x \in {} |-> None]
MapPut(m, k, v) == [x \in (DOMAIN m) \cup {k} |-> IF x = k THEN v ELSE m[x]]
MapDel(m, k) == [x \in (DOMAIN m) \ {k} |-> m[x]]
SortedKeys(S) == SelectSeq(ScalarOrder, LAMBDA s : s \in S)

\* kind is "Dict" (addict.Dict), "dict" (a plain dict), "list" or "tuple".
MapObj(kind, m) == [kind |-> kind, m |-> m, e |-> <<>>]
SeqObj(kind, e) == [kind |-> kind, m |-> EmptyMap, e |-> e]

Alloc(h, o) == [h |-> Append(h, o), v |-> Ref(Len(h) + 1)]

\* isinstance(v, Dict), isinstance(v, dict), isinstance(v, list), ...
IsNode(h, v) == v.ref /\ h[v.a].kind = "Dict"
IsDict(h, v) == v.ref /\ h[v.a].kind \in {"Dict", "dict"}
IsList(h, v) == v.ref /\ h[v.a].kind = "list"
IsTuple(h, v) == v.ref /\ h[v.a].kind = "tuple"
IsSeq(h, v) == IsList(h, v) \/ IsTuple(h, v)

\* type(v)
TypeOf(h, v) ==
    IF v.ref THEN h[v.a].kind
    ELSE IF v.s = "None" THEN "NoneType"
    ELSE IF v.s \in Strs THEN "str" ELSE "int"

\* len(v) of a container
LenOf(h, v) ==
    IF IsDict(h, v) THEN Cardinality(DOMAIN h[v.a].m) ELSE Len(h[v.a].e)

\* bool(v): None, 0 and the empty containers are falsy.
Truthy(h, v) == IF v.ref THEN LenOf(h, v) > 0 ELSE v.s \notin {"0", "None"}

\* v == 0
EqZero(v) == ~v.ref /\ v.s = "0"

(***************************************************************************)
(* Deep values: the tree a value unfolds to, addresses forgotten.          *)
(***************************************************************************)
Leaf(s) == [k |-> "s", s |-> s, ks |-> <<>>, c |-> <<>>]
D(ks, cs) == [k |-> "dict", s |-> "", ks |-> ks, c |-> cs]
N(ks, cs) == [k |-> "Dict", s |-> "", ks |-> ks, c |-> cs]
L(cs) == [k |-> "list", s |-> "", ks |-> <<>>, c |-> cs]
T(cs) == [k |-> "tuple", s |-> "", ks |-> <<>>, c |-> cs]

RECURSIVE Tree(_, _)
Tree(h, v) ==
    IF ~v.ref THEN Leaf(v.s)
    ELSE LET o == h[v.a] IN
         IF o.kind \in {"Dict", "dict"}
         THEN LET ks == SortedKeys(DOMAIN o.m) IN
              [k |-> o.kind, s |-> "", ks |-> ks,
               c |-> [i \in 1..Len(ks) |-> Tree(h, o.m[ks[i]])]]
         ELSE [k |-> o.kind, s |-> "", ks |-> <<>>,
               c |-> [i \in 1..Len(o.e) |-> Tree(h, o.e[i])]]

\* Python's == on containers: a Dict equals a dict of equal items.
RECURSIVE Plain(_)
Plain(t) ==
    [k |-> IF t.k = "Dict" THEN "dict" ELSE t.k, s |-> t.s, ks |-> t.ks,
     c |-> [i \in 1..Len(t.c) |-> Plain(t.c[i])]]

\* The coerced form of a tree: every mapping a Dict.
RECURSIVE Coerced(_)
Coerced(t) ==
    [k |-> IF t.k = "dict" THEN "Dict" ELSE t.k, s |-> t.s, ks |-> t.ks,
     c |-> [i \in 1..Len(t.c) |-> Coerced(t.c[i])]]

\* The kinds of container occurring in a tree.
RECURSIVE KindsIn(_)
KindsIn(t) ==
    (IF t.k = "s" THEN {} ELSE {t.k})
        \cup UNION {KindsIn(t.c[i]) : i \in 1..Len(t.c)}

\* The caller's argument: the objects of a literal, built bottom-up.
RECURSIVE Eval(_, _), EvalAll(_, _, _, _)
Eval(h, t) ==
    IF t.k = "s" THEN [h |-> h, v |-> Sc(t.s)]
    ELSE LET r == EvalAll(h, t.c, 1, <<>>) IN
         IF t.k \in {"Dict", "dict"}
         THEN Alloc(r.h, MapObj(t.k,
                  [x \in {t.ks[i] : i \in 1..Len(t.ks)} |->
                      r.e[CHOOSE i \in 1..Len(t.ks) : t.ks[i] = x]]))
         ELSE Alloc(r.h, SeqObj(t.k, r.e))
EvalAll(h, ts, i, acc) ==
    IF i > Len(ts) THEN [h |-> h, e |-> acc]
    ELSE LET r == Eval(h, ts[i]) IN EvalAll(r.h, ts, i + 1, Append(acc, r.v))

(***************************************************************************)
(* Construction, coercion and path access.                                 *)
(***************************************************************************)
\* hasattr(Dict, name): the names defined on the type (a few of them).
DictTypeAttrs == {"keys", "items", "update", "prune", "copy", "to_dict", "extend"}

\* `key, val = elem` in Dict.__init__'s loop over a sequence of pairs.
\* No str of the model has two characters, so a str never unpacks.
Unpack(h, elem) ==
    IF ~elem.ref
    THEN [err |-> IF elem.s \in Strs THEN "ValueError" ELSE "TypeError",
          key |-> None, val |-> None]
    ELSE IF LenOf(h, elem) # 2
    THEN [err |-> "ValueError", key |-> None, val |-> None]
    ELSE IF IsDict(h, elem)
    THEN LET ks == SortedKeys(DOMAIN h[elem.a].m) IN
         [err |-> "", key |-> Sc(ks[1]), val |-> Sc(ks[2])]
    ELSE [err |-> "", key |-> h[elem.a].e[1], val |-> h[elem.a].e[2]]

RECURSIVE Hook(_, _), HookAll(_, _, _, _), DictInit(_, _)
RECURSIVE SetItem(_, _, _, _), SetItems(_, _, _, _, _), SetPairs(_, _, _, _)

\* A _hook that converts a dict and leaves a list or a tuple as it is.
HookFlat(h, v) ==
    IF IsDict(h, v)
    THEN LET r == DictInit(h, v) IN [h |-> r.h, v |-> r.v]
    ELSE [h |-> h, v |-> v]

\* Dict.__setitem__
SetItem(h, a, k, v) ==
    LET r == Hook(h, v) IN [r.h EXCEPT ![a].m = MapPut(@, k, r.v)]

\* Dict._hook
Hook(h, v) ==
    IF IsDict(h, v)
    THEN LET r == DictInit(h, v) IN [h |-> r.h, v |-> r.v]
    ELSE IF IsSeq(h, v)
    THEN LET r == HookAll(h, h[v.a].e, 1, <<>>) IN
         Alloc(r.h, SeqObj(h[v.a].kind, r.e))
    ELSE [h |-> h, v |-> v]
HookAll(h, es, i, acc) ==
    IF i > Len(es) THEN [h |-> h, e |-> acc]
    ELSE LET r == Hook(h, es[i]) IN HookAll(r.h, es, i + 1, Append(acc, r.v))

\* `for key, val in arg.items(): self[key] = val`
SetItems(h, self, src, ks, i) ==
    IF i > Len(ks) THEN h
    ELSE SetItems(SetItem(h, self, ks[i], h[src].m[ks[i]]), self, src, ks, i + 1)

\* `for key, val in arg: self[key] = val`; a list or a dict is no key, and
\* a tuple used as a key is outside the model's keys ("TupleKey").
SetPairs(h, self, es, i) ==
    IF i > Len(es) THEN [h |-> h, err |-> ""]
    ELSE LET u == Unpack(h, es[i]) IN
         IF u.err # "" THEN [h |-> h, err |-> u.err]
         ELSE IF u.key.ref
         THEN [h |-> h, err |-> IF IsTuple(h, u.key) THEN "TupleKey" ELSE "TypeError"]
         ELSE SetPairs(SetItem(h, self, u.key.s, u.val), self, es, i + 1)

\* Dict.__init__ with one positional source (Dict(arg)); generators are
\* not among the model's values.
DictInit(h, arg) ==
    LET self == Len(h) + 1
        h0 == Append(h, MapObj("Dict", EmptyMap))
        ok(hh) == [h |-> hh, v |-> Ref(self), err |-> ""]
        fail(e) == [h |-> h, v |-> None, err |-> e]
    IN  IF ~Truthy(h, arg) THEN ok(h0)
        ELSE IF IsDict(h, arg)
        THEN ok(SetItems(h0, self, arg.a, SortedKeys(DOMAIN h[arg.a].m), 1))
        ELSE IF IsTuple(h, arg) /\ ~IsTuple(h, h[arg.a].e[1])
        THEN LET e == h[arg.a].e IN
             IF Len(e) < 2 THEN fail("IndexError")
             ELSE IF e[1].ref THEN fail("TypeError")
             ELSE ok(SetItem(h0, self, e[1].s, e[2]))
        ELSE IF IsSeq(h, arg)
        THEN LET r == SetPairs(h0, self, h[arg.a].e, 1) IN
             IF r.err = "" THEN ok(r.h) ELSE fail(r.err)
        ELSE fail("TypeError")

\* A __setattr__ without the hasattr test.
SetAttrAny(h, a, name, v) == [h |-> SetItem(h, a, name, v), err |-> ""]

\* Dict.__setattr__
SetAttr(h, a, name, v) ==
    IF name \in DictTypeAttrs
    THEN [h |-> h, err |-> "AttributeError"]
    ELSE [h |-> SetItem(h, a, name, v), err |-> ""]

\* A __getitem__ that returns the Dict it made, not the one stored for it.
GetItemDetached(h, a, k) ==
    IF k \notin DOMAIN h[a].m
    THEN LET new == DictInit(h, None)
             h1 == SetItem(new.h, a, k, new.v)
         IN  [h |-> h1, v |-> new.v]
    ELSE [h |-> h, v |-> h[a].m[k]]

\* Dict.__getitem__ (and Dict.__getattr__, which calls it)
GetItem(h, a, k) ==
    IF k \notin DOMAIN h[a].m
    THEN LET lit == Alloc(h, MapObj("dict", EmptyMap))
             h1 == SetItem(lit.h, a, k, lit.v)
         IN  [h |-> h1, v |-> h1[a].m[k]]
    ELSE [h |-> h, v |-> h[a].m[k]]

\* dict.__delitem__ (and Dict.__delattr__, which calls it)
DelItem(h, a, k) ==
    IF k \in DOMAIN h[a].m
    THEN [h |-> [h EXCEPT ![a].m = MapDel(@, k)], err |-> ""]
    ELSE [h |-> h, err |-> "KeyError"]

(***************************************************************************)
(* prune                                                                   *)
(***************************************************************************)
RECURSIVE Prune(_, _, _, _), PruneKeys(_, _, _, _, _, _)
RECURSIVE PruneIter(_, _, _, _, _, _)

\* Dict._prune_iter: the items of new_iter.  type(item)(...) makes the
\* rebuilt nested sequence a new object of the item's kind.
PruneIter(h, es, i, acc, pz, pel) ==
    IF i > Len(es) THEN [h |-> h, e |-> acc]
    ELSE LET item == es[i] IN
         IF EqZero(item) /\ pz
         THEN PruneIter(h, es, i + 1, acc, pz, pel)
         ELSE IF IsNode(h, item)
         THEN LET hp == Prune(h, item.a, pz, pel) IN
              PruneIter(hp, es, i + 1,
                        IF Truthy(hp, item) THEN Append(acc, item) ELSE acc,
                        pz, pel)
         ELSE IF IsSeq(h, item)
         THEN LET r == PruneIter(h, h[item.a].e, 1, <<>>, pz, pel)
                  new == Alloc(r.h, SeqObj(h[item.a].kind, r.e))
              IN  PruneIter(new.h, es, i + 1,
                            IF Truthy(new.h, new.v) \/ ~pel
                            THEN Append(acc, new.v) ELSE acc,
                            pz, pel)
         ELSE PruneIter(h, es, i + 1, Append(acc, item), pz, pel)

\* The body of prune's loop, for the keys ks[i..] of list(self.items()).
PruneKeys(h, a, ks, i, pz, pel) ==
    IF i > Len(ks) THEN h
    ELSE LET
           k == ks[i]
           val == h[a].m[k]
           del(hh) == [hh EXCEPT ![a].m = MapDel(@, k)]
           h1 ==
             IF ~Truthy(h, val) /\ (~EqZero(val) \/ pz) /\ ~IsList(h, val)
             THEN del(h)
             ELSE IF IsNode(h, val)
             THEN LET hp == Prune(h, val.a, pz, pel) IN
                  IF ~Truthy(hp, val) THEN del(hp) ELSE hp
             ELSE IF IsSeq(h, val)
             THEN LET r == PruneIter(h, h[val.a].e, 1, <<>>, pz, pel) IN
                  IF r.e = <<>> /\ pel THEN del(r.h)
                  ELSE LET new == Alloc(r.h, SeqObj(h[val.a].kind, r.e)) IN
                       SetItem(new.h, a, k, new.v)
             ELSE h
         IN PruneKeys(h1, a, ks, i + 1, pz, pel)

\* Dict.prune
Prune(h, a, pz, pel) ==
    PruneKeys(h, a, SortedKeys(DOMAIN h[a].m), 1, pz, pel)

(***************************************************************************)
(* to_dict and copy                                                        *)
(***************************************************************************)
RECURSIVE ToDict(_, _), ToDictKeys(_, _, _, _, _), ToDictItems(_, _, _, _)

\* `item.to_dict() if isinstance(item, type(self)) else item for item in value`
ToDictItems(h, es, i, acc) ==
    IF i > Len(es) THEN [h |-> h, e |-> acc]
    ELSE LET r == IF IsNode(h, es[i]) THEN ToDict(h, es[i].a)
                  ELSE [h |-> h, v |-> es[i]]
         IN  ToDictItems(r.h, es, i + 1, Append(acc, r.v))

\* The body of to_dict's loop, for the keys ks[i..].
ToDictKeys(h, a, base, ks, i) ==
    IF i > Len(ks) THEN h
    ELSE LET value == h[a].m[ks[i]]
             r == IF IsNode(h, value) THEN ToDict(h, value.a)
                  ELSE IF IsSeq(h, value)
                  THEN LET q == ToDictItems(h, h[value.a].e, 1, <<>>) IN
                       Alloc(q.h, SeqObj(h[value.a].kind, q.e))
                  ELSE [h |-> h, v |-> value]
         IN  ToDictKeys([r.h EXCEPT ![base].m = MapPut(@, ks[i], r.v)],
                        a, base, ks, i + 1)

\* Dict.to_dict
ToDict(h, a) ==
    LET base == Alloc(h, MapObj("dict", EmptyMap)) IN
    [h |-> ToDictKeys(base.h, a, base.v.a, SortedKeys(DOMAIN h[a].m), 1),
     v |-> base.v]

\* A copy of the top level only (dict.copy): the values are shared.
CopyShallow(h, a) == Alloc(h, MapObj("Dict", h[a].m))

\* Dict.copy
Copy(h, a) ==
    LET p == ToDict(h, a)
        d == DictInit(p.h, p.v)
    IN  [h |-> d.h, v |-> d.v]

(***************************************************************************)
(* update                                                                  *)
(***************************************************************************)
\* dict.update, what self[k].update(v) is when self[k] is a plain dict.
RawUpdate(h, a, d) ==
    LET old == h[a].m
        new == h[d].m
    IN  [h EXCEPT ![a].m = [x \in (DOMAIN old) \cup (DOMAIN new) |->
                               IF x \in DOMAIN new THEN new[x] ELSE old[x]]]

RECURSIVE Update(_, _, _), UpdateKeys(_, _, _, _, _)

\* The body of update's loop, for the keys ks[i..] of d.
UpdateKeys(h, a, d, ks, i) ==
    IF i > Len(ks) THEN h
    ELSE LET k == ks[i]
             v == h[d].m[k]
             h1 == IF \/ k \notin DOMAIN h[a].m
                      \/ ~IsDict(h, h[a].m[k])
                      \/ ~IsDict(h, v)
                   THEN SetItem(h, a, k, v)
                   ELSE IF IsNode(h, h[a].m[k])
                   THEN Update(h, h[a].m[k].a, v.a)
                   ELSE RawUpdate(h, h[a].m[k].a, v.a)
         IN  UpdateKeys(h1, a, d, ks, i + 1)

\* An update that overwrites every key (dict.update).
UpdateFlat(h, a, d) == SetItems(h, a, d, SortedKeys(DOMAIN h[d].m), 1)

\* Dict.update
Update(h, a, d) == UpdateKeys(h, a, d, SortedKeys(DOMAIN h[d].m), 1)

(***************************************************************************)
(* extend                                                                  *)
(***************************************************************************)
ListActions == {"replace", "append", "ammend"}

\* extended[item] = v: dict.__setitem__, extended being the plain dict that
\* `extended = {}` made (a Dict source is never the accumulator itself).
ItemSet(h, a, k, v) == [h EXCEPT ![a].m = MapPut(@, k, v)]

RECURSIVE Extend(_, _, _, _, _), ExtendArgs(_, _, _, _, _, _)
RECURSIVE ExtendKeys(_, _, _, _, _, _, _), Ammend(_, _, _, _, _, _)

\* The loop over a map-like source's keys ks[i..].
ExtendKeys(h, ext, arg, ks, i, deep, la) ==
    IF i > Len(ks) THEN h
    ELSE LET item == ks[i]
             h1 == IF deep /\ item \in DOMAIN h[ext].m
                   THEN LET r == Extend(h, <<h[ext].m[item], h[arg].m[item]>>,
                                        deep, la, FALSE)
                        IN  ItemSet(r.h, ext, item, r.v)
                   ELSE ItemSet(h, ext, item, h[arg].m[item])
         IN  ExtendKeys(h1, ext, arg, ks, i + 1, deep, la)

\* The 'ammend' loop, once per item of arg from the j-th on.
Ammend(h, ext, arg, j, deep, la) ==
    IF j > Len(h[arg.a].e) THEN [h |-> h, v |-> ext]
    ELSE LET ea == h[arg.a].e
             ee == h[ext.a].e
         IN  IF Len(ee) > Len(ea)
             THEN LET new == Alloc(h, SeqObj("list",
                                 ea \o SubSeq(ee, Len(ea) + 1, Len(ee))))
                      r == IF deep
                           THEN Extend(new.h, <<new.v>>, deep, la, FALSE)
                           ELSE [h |-> new.h, v |-> new.v]
                  IN  Ammend(r.h, r.v, arg, j + 1, deep, la)
             ELSE Ammend(h, arg, arg, j + 1, deep, la)

\* The loop over the sources args[i..], extended being ext.
ExtendArgs(h, args, i, ext, deep, la) ==
    IF i > Len(args) THEN [h |-> h, v |-> ext]
    ELSE LET
           arg == args[i]
           e0 == IF ext # None /\ TypeOf(h, ext) # TypeOf(h, arg)
                 THEN None ELSE ext
           r ==
             IF IsDict(h, arg)
             THEN LET b == IF e0 = None
                           THEN Alloc(h, MapObj("dict", EmptyMap))
                           ELSE [h |-> h, v |-> e0]
                  IN  [h |-> ExtendKeys(b.h, b.v.a, arg.a,
                                        SortedKeys(DOMAIN h[arg.a].m), 1,
                                        deep, la),
                       v |-> b.v]
             ELSE IF IsSeq(h, arg)
             THEN LET a1 == IF IsTuple(h, arg)
                            THEN Alloc(h, SeqObj("list", h[arg.a].e))
                            ELSE [h |-> h, v |-> arg]
                      b == IF e0 = None
                           THEN Alloc(a1.h, SeqObj("list", <<>>))
                           ELSE [h |-> a1.h, v |-> e0]
                  IN  IF la = "append"
                      THEN [h |-> [b.h EXCEPT ![b.v.a].e = @ \o b.h[a1.v.a].e],
                            v |-> b.v]
                      ELSE IF la = "ammend"
                      THEN Ammend(b.h, b.v, a1.v, 1, deep, la)
                      ELSE [h |-> b.h, v |-> a1.v]
             ELSE [h |-> h, v |-> arg]
         IN ExtendArgs(r.h, args, i + 1, r.v, deep, la)

\* Dict.extend(*args, deep=deep, list_action=la); first is first_iter.
Extend(h, args, deep, la, first) ==
    LET r == ExtendArgs(h, args, 1, None, deep, la) IN
    IF first THEN DictInit(r.h, r.v)
    ELSE [h |-> r.h, v |-> r.v, err |-> ""]

(***************************************************************************)
(* The program's variables and the objects they reach.                     *)
(*   heap  the containers; n, c the Node and its copy (0: none);           *)
(*   tgt   the container the last method was called on (0: none);          *)
(*   ret   what the last call returned; srcs the arguments it was given;   *)
(*   last  the last call: its name, arguments and error.                   *)
(***************************************************************************)
AddrV(a) == IF a = 0 THEN None ELSE Ref(a)

\* The addresses a sequence of values refers to, in order.
RefsOf(vs) ==
    LET rs == SelectSeq(vs, LAMBDA v : v.ref) IN [i \in 1..Len(rs) |-> rs[i].a]

\* The addresses an object refers to.
Kids(h, a) ==
    LET o == h[a]
        ks == SortedKeys(DOMAIN o.m)
    IN  RefsOf([i \in 1..Len(ks) |-> o.m[ks[i]]] \o o.e)

\* The objects reachable from the addresses todo, depth first, after seen.
RECURSIVE Visit(_, _, _)
Visit(h, todo, seen) ==
    IF todo = <<>> THEN seen
    ELSE LET a == Head(todo) IN
         IF \E i \in 1..Len(seen) : seen[i] = a
         THEN Visit(h, Tail(todo), seen)
         ELSE Visit(h, Kids(h, a) \o Tail(todo), Append(seen, a))

Reach(h, v) ==
    LET ord == Visit(h, RefsOf(<<v>>), <<>>) IN {ord[i] : i \in 1..Len(ord)}

\* The Dicts, and the lists, reachable from a value.
Nodes(h, v) == {a \in Reach(h, v) : h[a].kind = "Dict"}
Lists(h, v) == {a \in Reach(h, v) : h[a].kind = "list"}

\* The program's state with heap h: unreachable objects are dropped and
\* the rest renumbered in the order n, c, tgt, ret, srcs reach them.
Canon(h, nn, cc, tt, rv, ss) ==
    LET ord == Visit(h, RefsOf(<<AddrV(nn), AddrV(cc), AddrV(tt), rv>> \o ss), <<>>)
        idx(a) == IF a = 0 THEN 0 ELSE CHOOSE i \in 1..Len(ord) : ord[i] = a
        mv(v) == IF v.ref THEN Ref(idx(v.a)) ELSE v
        mo(o) == [kind |-> o.kind,
                  m |-> [x \in DOMAIN o.m |-> mv(o.m[x])],
                  e |-> [i \in 1..Len(o.e) |-> mv(o.e[i])]]
    IN  [heap |-> [i \in 1..Len(ord) |-> mo(h[ord[i]])],
         n |-> idx(nn), c |-> idx(cc), tgt |-> idx(tt), ret |-> mv(rv),
         srcs |-> [i \in 1..Len(ss) |-> mv(ss[i])]]

Commit(h, nn, cc, tt, rv, ss, ll) ==
    LET s == Canon(h, nn, cc, tt, rv, ss) IN
    /\ heap' = s.heap
    /\ n' = s.n
    /\ c' = s.c
    /\ tgt' = s.tgt
    /\ ret' = s.ret
    /\ srcs' = s.srcs
    /\ last' = ll

NoTree == [k |-> "none", s |-> "", ks |-> <<>>, c |-> <<>>]

\* No call: the program starts ("init") or is between statements.
NoCall(op) ==
    [op |-> op, at |-> 0, side |-> "", via |-> "root", key |-> "",
     f1 |-> FALSE, f2 |-> FALSE, la |-> "", arg |-> NoTree, err |-> ""]

\* Which of the program's Nodes an object hangs from.
SideOf(h, a) ==
    LET inN == n # 0 /\ a \in Reach(h, Ref(n))
        inC == c # 0 /\ a \in Reach(h, Ref(c))
    IN  IF inN /\ inC THEN "both" ELSE IF inN THEN "n"
        ELSE IF inC THEN "c" ELSE "none"

\* The program is between statements: it holds n and c and nothing else.
Ready == last.op \in {"init", "idle", "c = n.copy()"}

\* A call: op its name; at the container it is called on (0: none), side
\* the root that container hangs from and via how the statement got it;
\* key, the two flags, the list action and the literal argument; and the
\* error the call raised.
Call(op, a, key, f1, f2, la, arg, err) ==
    [op |-> op, at |-> a, side |-> IF a = 0 THEN "" ELSE SideOf(heap, a),
     via |-> IF Ready THEN "root" ELSE "ret",
     key |-> key, f1 |-> f1, f2 |-> f2, la |-> la, arg |-> arg, err |-> err]

\* The containers a statement can call a method on: between statements
\* those found from n and c, and otherwise what the last call returned
\* (a chained call, as in n[k1][k2] = v).
Targets ==
    IF Ready THEN Nodes(heap, AddrV(n)) \cup Nodes(heap, AddrV(c))
    ELSE IF IsNode(heap, ret) THEN {ret.a} ELSE {}
ListTargets ==
    IF Ready THEN Lists(heap, AddrV(n)) \cup Lists(heap, AddrV(c))
    ELSE IF IsList(heap, ret) THEN {ret.a} ELSE {}

(***************************************************************************)
(* The calls a program makes, their arguments drawn from literals.         *)
(***************************************************************************)
\* n = Dict(lit)
Construct(lit) ==
    LET ev == Eval(heap, lit)
        r == DictInit(ev.h, ev.v)
        ll == Call("construct", 0, "", FALSE, FALSE, "", lit, r.err)
    IN  /\ Ready
        /\ IF r.err = ""
           THEN Commit(r.h, r.v.a, c, r.v.a, None, <<>>, ll)
           ELSE Commit(heap, n, c, 0, None, <<>>, ll)

\* node[k] = lit
SetItemAct(a, k, lit) ==
    LET ev == Eval(heap, lit)
        h1 == SetItem(ev.h, a, k, ev.v)
    IN  Commit(h1, n, c, a, None, <<>>,
               Call("set", a, k, FALSE, FALSE, "", lit, ""))

\* node.name = lit
SetAttrAct(a, name, lit) ==
    LET ev == Eval(heap, lit)
        r == SetAttr(ev.h, a, name, ev.v)
    IN  Commit(r.h, n, c, a, None, <<>>,
               Call("setattr", a, name, FALSE, FALSE, "", lit, r.err))

\* node[k]; f1 tells whether k was present
GetItemAct(a, k) ==
    LET r == GetItem(heap, a, k) IN
    Commit(r.h, n, c, a, r.v, <<>>,
           Call("get", a, k, k \in DOMAIN heap[a].m, FALSE, "",
                NoTree, ""))

\* k in node (dict.__contains__); f1 is the answer
ContainsAct(a, k) ==
    Commit(heap, n, c, a, None, <<>>,
           Call("in", a, k, k \in DOMAIN heap[a].m, FALSE, "",
                NoTree, ""))

\* del node[k]
DelItemAct(a, k) ==
    LET r == DelItem(heap, a, k) IN
    Commit(r.h, n, c, a, None, <<>>,
           Call("del", a, k, FALSE, FALSE, "", NoTree, r.err))

\* node.update(lit)
UpdateAct(a, lit) ==
    LET ev == Eval(heap, lit)
        h1 == Update(ev.h, a, ev.v.a)
    IN  Commit(h1, n, c, a, None, <<ev.v>>,
               Call("update", a, "", FALSE, FALSE, "", lit, ""))

\* node.prune(prune_zero=pz, prune_empty_list=pel)
PruneAct(a, pz, pel) ==
    Commit(Prune(heap, a, pz, pel), n, c, a, None, <<>>,
           Call("prune", a, "", pz, pel, "", NoTree, ""))

\* node.to_dict()
ToDictAct(a) ==
    LET r == ToDict(heap, a) IN
    Commit(r.h, n, c, a, r.v, <<>>,
           Call("to_dict", a, "", FALSE, FALSE, "", NoTree, ""))

\* n = n.copy()
CopyAct ==
    LET r == Copy(heap, n) IN
    /\ Ready
    /\ Commit(r.h, r.v.a, c, r.v.a, None, <<>>,
              Call("copy", n, "", FALSE, FALSE, "", NoTree, ""))

\* c = n.copy()
CopyToC ==
    LET r == Copy(heap, n) IN
    /\ last.op = "init"
    /\ Commit(r.h, n, r.v.a, 0, None, <<>>, NoCall("c = n.copy()"))

\* lst.append(lit), lst a list held by n or c
ListAppendAct(a, lit) ==
    LET ev == Eval(heap, lit) IN
    Commit([ev.h EXCEPT ![a].e = Append(@, ev.v)], n, c, a, None, <<>>,
           Call("append", a, "", FALSE, FALSE, "", lit, ""))

\* del lst[0]
ListDelAct(a) ==
    /\ Len(heap[a].e) > 0
    /\ Commit([heap EXCEPT ![a].e = Tail(@)], n, c, a, None, <<>>,
              Call("del[0]", a, "", FALSE, FALSE, "", NoTree, ""))

\* ret = n.extend(*args, deep=deep, list_action=la); args is the tuple
\* of the sources.
ExtendAct(args, deep, la) ==
    LET ev == EvalAll(heap, args, 1, <<>>)
        r == Extend(ev.h, ev.e, deep, la, TRUE)
    IN  /\ Ready
        /\ Commit(r.h, n, c, n, r.v, ev.e,
                  Call("extend", n, "", deep, FALSE, la, T(args), r.err))

\* The statement ends: what the call returned and was given is dropped.
Return ==
    /\ ~Ready
    /\ Commit(heap, n, c, 0, None, <<>>,
              NoCall("idle"))

\* The Node (and its copy) hold at most cap containers; 0 is no cap.
Fits(cap) ==
    \/ cap = 0
    \/ Cardinality(Reach(heap', AddrV(n')) \cup Reach(heap', AddrV(c'))) <= cap

\* The method calls with keys from KS, values from LS and update arguments
\* from OS.
Calls(KS, LS, OS, cap) ==
    \/ \E a \in Targets, k \in KS, lit \in LS : SetItemAct(a, k, lit) /\ Fits(cap)
    \/ \E a \in Targets, k \in KS, lit \in LS : SetAttrAct(a, k, lit) /\ Fits(cap)
    \/ \E a \in Targets, k \in KS : GetItemAct(a, k) /\ Fits(cap)
    \/ \E a \in Targets, k \in KS : ContainsAct(a, k)
    \/ \E a \in Targets, k \in KS : DelItemAct(a, k)
    \/ \E a \in Targets, lit \in OS : UpdateAct(a, lit) /\ Fits(cap)
    \/ \E a \in Targets, pz \in BOOLEAN, pel \in BOOLEAN : PruneAct(a, pz, pel)
    \/ \E a \in Targets : ToDictAct(a)

(***************************************************************************)
(* Spec: any sequence of calls on a Node that starts empty.                *)
(***************************************************************************)
Zero == Leaf("0")
One == Leaf("1")
Nul == Leaf("None")
ED == D(<<>>, <<>>)

Keys == {"a", "b"}
Lits == {One, ED, L(<<ED>>)}
Sources ==
    {D(<<"a">>, <<L(<<ED>>)>>), D(<<"a">>, <<T(<<ED>>)>>),
     T(<<Leaf("a"), ED>>), L(<<T(<<Leaf("b"), One>>)>>), One}
Others ==
    {D(<<"a">>, <<One>>), D(<<"a">>, <<D(<<"b">>, <<Zero>>)>>),
     D(<<"b">>, <<L(<<ED>>)>>)}

Init ==
    /\ heap = <<MapObj("Dict", EmptyMap)>>
    /\ n = 1
    /\ c = 0
    /\ tgt = 0
    /\ ret = None
    /\ srcs = <<>>
    /\ last = NoCall("init")

Next ==
    \/ \E lit \in Sources : Construct(lit) /\ Fits(MaxObjs)
    \/ Calls(Keys, Lits, Others, MaxObjs)
    \/ CopyAct
    \/ Return

Spec == Init /\ [][Next]_vars

(***************************************************************************)
(* SpecOnce: one call on a Node constructed from a nested literal.         *)
(***************************************************************************)
\* The deepest nesting of the values generated below.
MaxDepth == 2

Atoms == {Zero, One, Nul, ED, L(<<>>), T(<<>>)}

\* The values nested at most d deep.
RECURSIVE Vals(_)
Vals(d) ==
    IF d = 0 THEN Atoms
    ELSE LET P == Vals(d - 1) IN
         Atoms \cup {D(<<"a">>, <<v>>) : v \in P}
               \cup {L(<<v>>) : v \in P} \cup {T(<<v>>) : v \in P}

Inputs ==
    {D(<<"a">>, <<v>>) : v \in Vals(MaxDepth)}
        \cup {D(<<"a", "b">>, <<v, w>>) : v \in Vals(1), w \in {Zero, ED}}
        \cup {D(<<"a">>, <<L(<<v, w>>)>>) : v \in Atoms, w \in Atoms}
        \cup {D(<<"keys">>, <<v>>) : v \in Atoms}

KeysOnce == {"a", "b", "keys"}
LitsOnce == Vals(1)
OthersOnce ==
    {D(<<"a">>, <<v>>) : v \in Vals(1)}
        \cup {D(<<"a", "b">>, <<D(<<"b">>, <<One>>), v>>) : v \in {One, L(<<ED>>)}}
        \cup {D(<<"a">>, <<D(<<"a">>, <<D(<<"b">>, <<One>>)>>)>>),
              N(<<"a">>, <<N(<<"b">>, <<One>>)>>)}

\* n = Dict(lit)
InitOnce ==
    \E lit \in Inputs :
        LET ev == Eval(<<>>, lit)
            r == DictInit(ev.h, ev.v)
            s == Canon(r.h, r.v.a, 0, 0, None, <<>>)
        IN  /\ heap = s.heap
            /\ n = s.n
            /\ c = 0
            /\ tgt = 0
            /\ ret = None
            /\ srcs = <<>>
            /\ last = NoCall("init")

NextOnce ==
    /\ last.op = "init"
    /\ Calls(KeysOnce, LitsOnce, OthersOnce, 0)

SpecOnce == InitOnce /\ [][NextOnce]_vars

(***************************************************************************)
(* SpecCopy: c = n.copy(), then a statement on either side: a call on a    *)
(* Node or a list mutation, direct or through what n[k] returned.          *)
(***************************************************************************)
NextCopy ==
    \/ CopyToC
    \/ /\ c # 0
       /\ last.via = "root"
       /\ \/ Calls(Keys, Lits, Others, 0)
          \/ \E a \in ListTargets, lit \in Lits : ListAppendAct(a, lit)
          \/ \E a \in ListTargets : ListDelAct(a)

SpecCopy == InitOnce /\ [][NextCopy]_vars

(***************************************************************************)
(* SpecExtend: one extend call over up to MaxArgs sources.                 *)
(***************************************************************************)
ExtSources ==
    {D(<<"a">>, <<One>>), D(<<"b">>, <<Zero>>),
     D(<<"a">>, <<D(<<"a">>, <<One>>)>>), D(<<"a">>, <<D(<<"b">>, <<One>>)>>),
     N(<<"b">>, <<One>>), N(<<"a">>, <<N(<<"b">>, <<Zero>>)>>),
     L(<<One, Zero>>), L(<<One>>), L(<<T(<<Leaf("a"), One>>)>>),
     T(<<One>>), One, Zero}

ArgSeqs == UNION {[1..k -> ExtSources] : k \in 0..MaxArgs}

NextExtend ==
    \E args \in ArgSeqs, deep \in BOOLEAN, la \in ListActions :
        ExtendAct(args, deep, la)

SpecExtend == Init /\ [][NextExtend]_vars

(***************************************************************************)
(* Trees of the program's Nodes, before and after a step.                  *)
(***************************************************************************)
TreeN == Tree(heap, AddrV(n))
TreeC == Tree(heap, AddrV(c))
\* The tree of the container the call recorded in last' was made on, before
\* the call and after it.
TreeAtBefore == Tree(heap, AddrV(last'.at))
TreeAtAfter == Tree(heap', AddrV(tgt'))

\* A mapping's tree with key k holding the tree v.
TreePut(t, k, v) ==
    LET S == {t.ks[i] : i \in 1..Len(t.ks)} \cup {k}
        ks == SortedKeys(S)
        old(x) == t.c[CHOOSE i \in 1..Len(t.ks) : t.ks[i] = x]
    IN  [t EXCEPT !.ks = ks,
                  !.c = [i \in 1..Len(ks) |-> IF ks[i] = k THEN v ELSE old(ks[i])]]

\* The tree a mapping's tree holds at key k.
TreeGet(t, k) == t.c[CHOOSE i \in 1..Len(t.ks) : t.ks[i] = k]
TreeKeys(t) == {t.ks[i] : i \in 1..Len(t.ks)}

(***************************************************************************)
(* C1. Coercion closure: in every state, every mapping reachable from the  *)
(* Node n (directly, through nested Nodes, or inside lists and tuples at   *)
(* any depth) is a Dict; no plain dict is reachable.                       *)
(***************************************************************************)
C1_CoercionClosure ==
    \A a \in Reach(heap, AddrV(n)) : heap[a].kind # "dict"

\* A plain dict inside a list was stored, and is reached as a Dict.
C1_Witness ==
    /\ last.op \in {"set", "setattr"}
    /\ last.arg = L(<<ED>>)
    /\ \E a \in Lists(heap, AddrV(n)) :
           Len(heap[a].e) = 1 /\ IsNode(heap, heap[a].e[1])

(***************************************************************************)
(* C2. Autovivification: node[k] with k absent inserts one new empty Dict  *)
(* at k, leaves the other keys as they were and returns the very object    *)
(* it stored; a write through the returned child is seen through the       *)
(* parent; node[k] with k present and `k in node` change nothing.          *)
(***************************************************************************)
C2_Autoviv ==
    [][/\ (last'.op = "get" /\ ~last'.f1) =>
              /\ IsNode(heap', ret')
              /\ heap'[ret'.a].m = EmptyMap
              /\ last'.key \in DOMAIN heap'[tgt'].m
              /\ heap'[tgt'].m[last'.key] = ret'
              /\ TreeAtAfter = TreePut(TreeAtBefore, last'.key, N(<<>>, <<>>))
              /\ Len(heap') = Len(heap) + 1
       /\ (last'.op = "get" /\ last'.f1) =>
              /\ heap'[tgt'].m[last'.key] = ret'
              /\ Tree(heap', ret') = TreeGet(TreeAtBefore, last'.key)
              /\ TreeAtAfter = TreeAtBefore
              /\ Tree(heap', AddrV(n')) = TreeN
       /\ (last'.op = "in") =>
              /\ last'.f1 = (last'.key \in TreeKeys(TreeAtBefore))
              /\ TreeAtAfter = TreeAtBefore
              /\ Tree(heap', AddrV(n')) = TreeN
       /\ (last'.op = "set" /\ last.op = "get") =>
              /\ \E p \in Nodes(heap', AddrV(n')) :
                     /\ last.key \in DOMAIN heap'[p].m
                     /\ heap'[p].m[last.key] = Ref(tgt')
              /\ Tree(heap', heap'[tgt'].m[last'.key]) = Coerced(last'.arg)
      ]_vars

\* n.a.b.a = 1 on an empty n: the last write went through the child that
\* n.a.b returned, and n.a and n.a.b are non-empty Dicts holding it.
C2_Witness ==
    /\ last.op = "set"
    /\ last.via = "ret"
    /\ TreeN = N(<<"a">>, <<N(<<"b">>, <<N(<<"a">>, <<One>>)>>)>>)

(***************************************************************************)
(* C3. Copy disconnection: c = n.copy() is deep-equal to n and shares no   *)
(* Dict or list with it; a call or a list mutation made on c's side, at    *)
(* any depth, leaves n's tree as it was, and one on n's side leaves c's.   *)
(***************************************************************************)
IsMapT(t) == t.k \in {"dict", "Dict"}

Shared(h, x, y) ==
    (Nodes(h, AddrV(x)) \cup Lists(h, AddrV(x)))
        \cap (Nodes(h, AddrV(y)) \cup Lists(h, AddrV(y)))

C3_CopyDisconnected ==
    [][c' # 0 =>
          /\ Shared(heap', n', c') = {}
          /\ (last'.op = "c = n.copy()") =>
                 /\ Tree(heap', AddrV(c')) = Tree(heap', AddrV(n'))
                 /\ Tree(heap', AddrV(n')) = TreeN
          /\ (c # 0) =>
                 /\ last'.side \in {"n", "c"}
                 /\ (last'.side = "c") => Tree(heap', AddrV(n')) = TreeN
                 /\ (last'.side = "n") => Tree(heap', AddrV(c')) = TreeC
      ]_vars

\* A list inside a list of the copy was mutated through c['a'], and n
\* still holds the list of lists the copy was made from.
C3_Witness ==
    /\ last.op \in {"append", "del[0]"}
    /\ last.side = "c"
    /\ TreeN # TreeC
    /\ \E a \in Lists(heap, AddrV(n)) :
           \E i \in 1..Len(heap[a].e) : IsList(heap, heap[a].e[i])
    /\ \E a \in Lists(heap, AddrV(c)) :
           \E i \in 1..Len(heap[a].e) : heap[a].e[i] = Ref(tgt)

(***************************************************************************)
(* C4. update(other): a key of other that is absent in self, or whose old  *)
(* or new value is not a mapping, holds the coerced new value; where both  *)
(* are mappings the old one is merged by the same rule, its other keys     *)
(* surviving; keys of self not in other are unchanged; other is unchanged. *)
(***************************************************************************)
RECURSIVE Merged(_, _)
Merged(t, o) ==
    LET ks == SortedKeys(TreeKeys(t) \cup TreeKeys(o)) IN
    [k |-> t.k, s |-> "", ks |-> ks,
     c |-> [i \in 1..Len(ks) |->
               LET k == ks[i] IN
               IF k \notin TreeKeys(o) THEN TreeGet(t, k)
               ELSE IF /\ k \in TreeKeys(t)
                       /\ IsMapT(TreeGet(t, k))
                       /\ IsMapT(TreeGet(o, k))
               THEN Merged(TreeGet(t, k), TreeGet(o, k))
               ELSE Coerced(TreeGet(o, k))]]

C4_UpdateMerge ==
    [][(last'.op = "update") =>
          /\ TreeAtAfter = Merged(TreeAtBefore, last'.arg)
          /\ Tree(heap', srcs'[1]) = last'.arg
      ]_vars

\* {a: {a: ..}} updated with {a: {b: 1}, ..}: the two mappings at a merged,
\* the old key a.a surviving beside the new a.b.
C4_Witness ==
    /\ last.op = "update"
    /\ TreeGet(last.arg, "a") = D(<<"b">>, <<One>>)
    /\ "a" \in DOMAIN heap[tgt].m
    /\ IsNode(heap, heap[tgt].m["a"])
    /\ DOMAIN heap[heap[tgt].m["a"].a].m = {"a", "b"}

(***************************************************************************)
(* C5. prune(prune_zero, prune_empty_list), for every key: a value 0 is    *)
(* deleted iff prune_zero; a list or tuple value (an empty one included)   *)
(* is deleted iff its pruned rebuild is empty and prune_empty_list is      *)
(* true, and is otherwise kept, holding the rebuilt sequence of its kind.  *)
(***************************************************************************)
C5_PruneExemptions ==
    [][(last'.op = "prune") =>
          \A k \in DOMAIN heap[last'.at].m :
              LET v == heap[last'.at].m[k]
                  kept == k \in DOMAIN heap'[tgt'].m
              IN  /\ EqZero(v) => (kept <=> ~last'.f1)
                  /\ IsSeq(heap, v) =>
                       LET r == PruneIter(heap, heap[v.a].e, 1, <<>>,
                                          last'.f1, last'.f2)
                       IN  /\ kept <=> ~(r.e = <<>> /\ last'.f2)
                           /\ kept =>
                                Tree(heap', heap'[tgt'].m[k])
                                  = [k |-> heap[v.a].kind, s |-> "", ks |-> <<>>,
                                     c |-> [i \in 1..Len(r.e) |-> Tree(r.h, r.e[i])]]
      ]_vars

(***************************************************************************)
(* C6. extend over sources that are all mappings (dicts, Dicts or a mix)   *)
(* discards none: the result is a Dict with every key of every source;     *)
(* with deep false a key holds the value of the last source that has it,   *)
(* and with deep true a key whose old and new values are both mappings     *)
(* holds their recursive merge, the keys of the earlier one surviving.     *)
(***************************************************************************)
\* The mapping r has every key of src and, when deep, so do r's mappings
\* at the keys where src has a mapping.
RECURSIVE Covers(_, _, _)
Covers(r, src, deep) ==
    /\ IsMapT(r)
    /\ \A k \in TreeKeys(src) :
           /\ k \in TreeKeys(r)
           /\ (deep /\ IsMapT(TreeGet(src, k)) /\ IsMapT(TreeGet(r, k))) =>
                  Covers(TreeGet(r, k), TreeGet(src, k), deep)

C6_ExtendKeepsSources ==
    (/\ last.op = "extend"
     /\ Len(last.arg.c) >= 1
     /\ \A i \in 1..Len(last.arg.c) : IsMapT(last.arg.c[i]))
    => LET args == last.arg.c
           res == Tree(heap, ret)
       IN  /\ last.err = ""
           /\ IsNode(heap, ret)
           /\ \A i \in 1..Len(args) : Covers(res, args[i], last.f1)
           /\ ~last.f1 =>
                \A i \in 1..Len(args) : \A k \in TreeKeys(args[i]) :
                    (\A j \in (i + 1)..Len(args) : k \notin TreeKeys(args[j]))
                        => TreeGet(res, k) = Coerced(TreeGet(args[i], k))

(***************************************************************************)
(* C7. A top-level extend whose accumulator ends as a sequence returns it  *)
(* bare and does not fail: with list_action "append" over list sources the *)
(* result is their concatenation in order, and a list after a mapping      *)
(* discards the mapping and is returned itself.                            *)
(***************************************************************************)
RECURSIVE Concat(_, _)
Concat(ts, i) == IF i > Len(ts) THEN <<>> ELSE ts[i].c \o Concat(ts, i + 1)

C7_ExtendSequences ==
    (last.op = "extend") =>
        LET args == last.arg.c IN
        /\ (/\ last.la = "append"
            /\ Len(args) >= 1
            /\ \A i \in 1..Len(args) : args[i].k = "list")
           => /\ last.err = ""
              /\ Tree(heap, ret) = L(Concat(args, 1))
        /\ (/\ last.la = "replace"
            /\ Len(args) = 2
            /\ IsMapT(args[1])
            /\ args[2].k = "list")
           => /\ last.err = ""
              /\ Tree(heap, ret) = args[2]

(***************************************************************************)
(* C8. to_dict returns a structure with no Dict anywhere: every mapping    *)
(* in it, at the top, under mappings and inside sequences at any depth, is *)
(* a plain dict; lists stay lists, tuples tuples, and scalars unchanged.   *)
(***************************************************************************)
C8_ToDictPlain ==
    (last.op = "to_dict") => Tree(heap, ret) = Plain(Tree(heap, AddrV(tgt)))

(***************************************************************************)
(* C9. Reserved names: node.name = v with a name defined on the Dict type  *)
(* raises AttributeError, whether or not name is a key, and leaves the     *)
(* Node as it was; with any other name it does what node[name] = v does,   *)
(* storing the coerced value.                                              *)
(***************************************************************************)
C9_ReservedName ==
    [][(last'.op = "setattr") =>
          IF last'.key \in DictTypeAttrs
          THEN /\ last'.err = "AttributeError"
               /\ TreeAtAfter = TreeAtBefore
               /\ Tree(heap', AddrV(n')) = TreeN
          ELSE /\ last'.err = ""
               /\ TreeAtAfter
                    = TreePut(TreeAtBefore, last'.key, Coerced(last'.arg))
               /\ TreeAtAfter
                    = Tree(SetItem(Eval(heap, last'.arg).h, last'.at, last'.key,
                                   Eval(heap, last'.arg).v),
                           Ref(last'.at))
      ]_vars

\* node.keys = [{}] was refused on a Node that has the key 'keys'.
C9_Witness ==
    /\ last.op = "setattr"
    /\ last.key = "keys"
    /\ last.arg = L(<<ED>>)
    /\ last.err = "AttributeError"
    /\ "keys" \in DOMAIN heap[tgt].m

(***************************************************************************)
(* C10. prune is idempotent: right after prune(prune_zero,                 *)
(* prune_empty_list), a second prune with the same flags leaves the Node   *)
(* as the first left it.                                                   *)
(***************************************************************************)
C10_PruneIdempotent ==
    (last.op = "prune") =>
        Tree(Prune(heap, tgt, last.f1, last.f2), AddrV(n)) = TreeN

====
